---- MODULE Spec2Model ----
(***************************************************************************)
(* stsh: a job-control shell.  The model follows the full variant of the   *)
(* shell (fgBuiltin, bgBuiltin, SHCBuiltin, the three signal handlers,     *)
(* createJob with its foreground wait, main).  The job list, job and       *)
(* process classes (stsh-job-list.h, stsh-job.h, stsh-process.h) are not   *)
(* part of the sources at hand and are modelled from their description.    *)
(*                                                                         *)
(* Granularity: a signal handler runs to completion as one step.  A        *)
(* signal that is pending and not blocked is delivered before the shell    *)
(* takes its next step, and the children and the user act between any two  *)
(* steps of the shell, so a handler can run between any two of them.  The  *)
(* steps of createJob and of the builtins are cut where a handler that     *)
(* runs in between sees or leaves a different job list.  A reference to a  *)
(* job that a handler has erased is dangling: its use either crashes the   *)
(* shell or acts on the freed, still intact record.  An exception leaving  *)
(* sigchldHandler either terminates the shell or unwinds to the catch      *)
(* clause of main with SIGCHLD left blocked.                               *)
(***************************************************************************)
EXTENDS Integers, Sequences, FiniteSets, TLC

\* ---------------------------------------------------------------- bounds
MaxJobs == 2
MaxProcs == 2
MaxWidth == 2

\* ------------------------------------------------------------- constants
ShellPid == 10
ForkError == -1
ExitCaught == 0
OpenError == -1
FirstFd == 3

NULL == <<"NULL">>

ChildPids == (ShellPid + 1)..(ShellPid + MaxProcs)
JobNums == 1..MaxJobs

Mask == {"SIGCHLD", "SIGINT", "SIGTSTP", "SIGCONT"}

\* ----------------------------------------------------- argument parsing
Digits == <<"0", "1", "2", "3", "4", "5", "6", "7", "8", "9">>

IsDigit(c) == \E d \in 1..10 : Digits[d] = c

DigitVal(c) == (CHOOSE d \in 1..10 : Digits[d] = c) - 1

RECURSIVE DigitPrefix(_)
\* the longest prefix of s made of decimal digits
DigitPrefix(s) ==
    IF s = <<>> \/ ~IsDigit(Head(s)) THEN <<>>
    ELSE <<Head(s)>> \o DigitPrefix(Tail(s))

RECURSIVE DigitsValue(_, _)
DigitsValue(s, acc) ==
    IF s = <<>> THEN acc ELSE DigitsValue(Tail(s), 10 * acc + DigitVal(Head(s)))

Drop(s, n) == SubSeq(s, n + 1, Len(s))

\* strtol(first, &ptr, 10): the value and the unparsed rest; when no digit
\* is found nothing is consumed and the value is 0
strtol(s) ==
    LET neg  == s # <<>> /\ Head(s) = "-"
        body == IF neg THEN Tail(s) ELSE s
        ds   == DigitPrefix(body)
    IN  IF ds = <<>> THEN [val |-> 0, ptr |-> s]
        ELSE [val |-> IF neg THEN 0 - DigitsValue(ds, 0) ELSE DigitsValue(ds, 0),
              ptr |-> Drop(body, Len(ds))]

atoi(s) == strtol(s).val

RECURSIVE Decimal(_)
\* the decimal numeral of a natural number, as typed by the user
Decimal(n) ==
    IF n < 10 THEN <<Digits[n + 1]>> ELSE Decimal(n \div 10) \o <<Digits[(n % 10) + 1]>>

\* the argument tokens a command line of the model can carry
NumArgs == (0..MaxJobs) \cup ChildPids
Tokens == {Decimal(n) : n \in NumArgs} \cup {<<"-", "1">>, <<"1", "x">>}

\* ------------------------------------------------------------------ state
VARIABLES
    pc,        \* control point of the shell process
    cmd,       \* the pipeline being executed
    job,       \* number of the job the local reference `job` refers to
    i,         \* loop index of the fork loop of createJob
    existing,  \* the signal mask saved by sigprocmask(SIG_BLOCK, ...)
    joblist,   \* the global STSHJobList
    next,      \* number of the next job addJob hands out
    kern,      \* the kernel's view of every child process
    nextPid,   \* pid the next successful fork returns
    blocked,   \* blocked-signal mask of the shell
    pending,   \* signals pending for the shell
    tcpgrp,    \* foreground process group of the controlling terminal
    fds        \* pipe file descriptors open in the shell

vars == <<pc, cmd, job, i, existing, joblist, next, kern, nextPid, blocked,
          pending, tcpgrp, fds>>

NoCmd == [kind |-> "none", background |-> FALSE, count |-> 0, index |-> 0,
          two |-> FALSE, pid |-> 0, infd |-> 0]

NoJob == [st |-> "free", state |-> "Background", pgid |-> 0, procs |-> <<>>]

NoProc == [st |-> "unborn", img |-> "none", ev |-> "none", pg |-> 0,
           held |-> FALSE, status |-> 0]

\* --------------------------------------------------- the kernel's children
Born(c) == c.st \notin {"unborn", "reaped"}

\* the effect of one signal on one child.  A child that has not yet called
\* execvp still runs the shell's image with the shell's handlers installed,
\* so SIGINT and SIGTSTP neither kill nor stop it.
Deliver(c, sig) ==
    IF c.st \notin {"running", "stopped"} THEN c
    ELSE IF sig = "SIGKILL" THEN [c EXCEPT !.st = "zombie", !.ev = "none"]
    ELSE IF sig = "SIGSTOP" THEN
        IF c.st = "running" THEN [c EXCEPT !.st = "stopped", !.ev = "stopped"] ELSE c
    ELSE IF sig = "SIGCONT" THEN
        IF c.st = "stopped"
        THEN IF c.held THEN [c EXCEPT !.st = "zombie", !.ev = "none", !.held = FALSE]
             ELSE [c EXCEPT !.st = "running", !.ev = "continued"]
        ELSE c
    ELSE IF c.img # "prog" THEN c
    ELSE IF sig = "SIGTSTP" THEN
        IF c.st = "running" THEN [c EXCEPT !.st = "stopped", !.ev = "stopped"] ELSE c
    ELSE IF sig = "SIGINT" THEN
        IF c.st = "running" THEN [c EXCEPT !.st = "zombie", !.ev = "none"]
        ELSE [c EXCEPT !.held = TRUE]
    ELSE c

\* kill(pid, sig): pid -1 addresses every process the shell may signal
KillTargets(k, pid) ==
    IF pid = -1 THEN {p \in ChildPids : Born(k[p])}
    ELSE IF pid \in ChildPids /\ Born(k[pid]) THEN {pid} ELSE {}

KillOk(k, pid) == pid = -1 \/ KillTargets(k, pid) # {}

kill(k, pid, sig) ==
    [p \in ChildPids |-> IF p \in KillTargets(k, pid) THEN Deliver(k[p], sig) ELSE k[p]]

RECURSIVE KillEach(_, _, _)
\* for (auto process: processes) kill(process.getID(), sig);
KillEach(k, procs, sig) ==
    IF procs = <<>> THEN k
    ELSE KillEach(kill(k, Head(procs).pid, sig), Tail(procs), sig)

\* a child that changed state makes the kernel post SIGCHLD to the shell
Waitable(k) == {p \in ChildPids : k[p].st = "zombie" \/ k[p].ev # "none"}

Posted(k, k2) ==
    IF \E p \in ChildPids : k2[p] # k[p] /\ p \in Waitable(k2)
    THEN {"SIGCHLD"} ELSE {}

\* ------------------------------------------------- job list, job, process
LiveJobs(jl) == {n \in JobNums : jl[n].st = "live"}

containsJob(jl, n) == n \in LiveJobs(jl)

JobPids(j) == {j.procs[x].pid : x \in 1..Len(j.procs)}

JobContainsProcess(j, pid) == pid \in JobPids(j)

containsProcess(jl, pid) == \E n \in LiveJobs(jl) : JobContainsProcess(jl[n], pid)

Lowest(S) == CHOOSE n \in S : \A m \in S : n <= m

getJobWithProcess(jl, pid) ==
    Lowest({n \in LiveJobs(jl) : JobContainsProcess(jl[n], pid)})

ForegroundJobs(jl) == {n \in LiveJobs(jl) : jl[n].state = "Foreground"}

hasForegroundJob(jl) == ForegroundJobs(jl) # {}

getForegroundJob(jl) == Lowest(ForegroundJobs(jl))

addJob(jl, n, state) ==
    [jl EXCEPT ![n] = [st |-> "live", state |-> state, pgid |-> 0, procs |-> <<>>]]

addProcess(j, pid) ==
    [j EXCEPT !.procs = Append(@, [pid |-> pid, state |-> "Running"]),
              !.pgid  = IF @ = 0 THEN pid ELSE @]

setProcessState(j, pid, state) ==
    [j EXCEPT !.procs = [x \in 1..Len(@) |->
        IF @[x].pid = pid THEN [@[x] EXCEPT !.state = state] ELSE @[x]]]

AllInState(j, states) == \A x \in 1..Len(j.procs) : j.procs[x].state \in states

\* synchronize(job): erase a job whose processes are all Terminated; demote
\* a Foreground job none of whose processes is Running and give the
\* terminal back to the shell
synchronize(jl, n, tc) ==
    IF ~containsJob(jl, n) THEN [joblist |-> jl, tcpgrp |-> tc]
    ELSE IF AllInState(jl[n], {"Terminated"})
         THEN [joblist |-> [jl EXCEPT ![n].st = "erased"], tcpgrp |-> tc]
    ELSE IF jl[n].state = "Foreground" /\ AllInState(jl[n], {"Terminated", "Stopped"})
         THEN [joblist |-> [jl EXCEPT ![n].state = "Background"], tcpgrp |-> ShellPid]
    ELSE [joblist |-> jl, tcpgrp |-> tc]

\* a job reference held across a step in which a handler erased the job
Dangling(jl, n) == jl[n].st = "erased"

\* on return to the prompt the freed records are out of reach
Forget(jl) == [n \in JobNums |-> IF jl[n].st = "erased" THEN [NoJob EXCEPT !.st = "erased"] ELSE jl[n]]

\* --------------------------------------------------------- initial state
Init ==
    /\ pc = "readline"
    /\ cmd = NoCmd
    /\ job = 0
    /\ i = 0
    /\ existing = {}
    /\ joblist = [n \in JobNums |-> NoJob]
    /\ next = 1
    /\ kern = [p \in ChildPids |-> NoProc]
    /\ nextPid = ShellPid + 1
    /\ blocked = {}
    /\ pending = {}
    /\ tcpgrp = ShellPid
    /\ fds = {}

Alive == pc \notin {"crashed", "exited"}

\* inside sigsuspend(&existing) the saved mask is the one in force
Suspended == pc \in {"cj_susp", "fg_susp"}

EffBlocked == IF Suspended THEN existing ELSE blocked

\* a pending signal that is not blocked is delivered before the shell
\* executes anything else
Running == Alive /\ ~Suspended /\ pending \ blocked = {}

\* sigsuspend returns once a handler has run
AfterHandler ==
    IF pc = "cj_susp" THEN "cj_wait" ELSE IF pc = "fg_susp" THEN "fg_wait" ELSE pc

\* main: the try block spans everything between two calls of readline
InTry == pc # "readline"

\* the state main is in when it calls readline again
BackToPrompt(jl) ==
    /\ pc' = "readline"
    /\ cmd' = NoCmd
    /\ job' = 0
    /\ i' = 0
    /\ existing' = {}
    /\ joblist' = Forget(jl)

\* ---------------------------------------------------------- sigchldHandler
Perms(S) ==
    {f \in [1..Cardinality(S) -> S] : \A a, b \in 1..Cardinality(S) : f[a] = f[b] => a = b}

WaitOnce(k) == IF Waitable(k) = {} THEN {<<>>} ELSE {<<p>> : p \in Waitable(k)}

\* while (1) { pid = waitpid(-1, ...); if (pid <= 0) break; ... }
\* the sequences of pids the calls of waitpid can return
WaitLoop(k) == Perms(Waitable(k))

\* the WIF... tests on the status waitpid reported
StateOf(c) ==
    IF c.st = "zombie" THEN "Terminated"
    ELSE IF c.ev = "stopped" THEN "Stopped" ELSE "Running"

\* what waitpid leaves of the child it reported
Waited(c) ==
    IF c.st = "zombie" THEN [NoProc EXCEPT !.st = "reaped"] ELSE [c EXCEPT !.ev = "none"]

RECURSIVE Drain(_, _, _, _)
Drain(order, jl, k, tc) ==
    IF order = <<>> THEN [joblist |-> jl, kern |-> k, tcpgrp |-> tc, threw |-> FALSE]
    ELSE LET p  == Head(order)
             k2 == [k EXCEPT ![p] = Waited(k[p])]
         IN  IF ~containsProcess(jl, p)
             THEN [joblist |-> jl, kern |-> k2, tcpgrp |-> tc, threw |-> TRUE]
             ELSE LET n  == getJobWithProcess(jl, p)
                      j2 == [jl EXCEPT ![n] = setProcessState(@, p, StateOf(k[p]))]
                      s  == synchronize(j2, n, tc)
                  IN  Drain(Tail(order), s.joblist, k2, s.tcpgrp)

sigchldHandler ==
    /\ Alive
    /\ "SIGCHLD" \in pending \ EffBlocked
    /\ \E order \in WaitLoop(kern) :
         LET r == Drain(order, joblist, kern, tcpgrp)
         IN  /\ kern' = r.kern
             /\ tcpgrp' = r.tcpgrp
             /\ pending' = pending \ {"SIGCHLD"}
             /\ IF ~r.threw
                THEN /\ joblist' = r.joblist
                     /\ pc' = AfterHandler
                     /\ UNCHANGED <<cmd, job, i, existing, blocked>>
                ELSE \/ /\ pc' = "crashed"
                        /\ joblist' = r.joblist
                        /\ UNCHANGED <<cmd, job, i, existing, blocked>>
                     \/ /\ InTry
                        /\ BackToPrompt(r.joblist)
                        /\ blocked' = EffBlocked \cup {"SIGCHLD"}
    /\ UNCHANGED <<next, nextPid, fds>>

\* ------------------------------------------- sigintHandler, sigtstpHandler
ForwardTargets(jl) ==
    IF hasForegroundJob(jl) THEN jl[getForegroundJob(jl)].procs ELSE <<>>

\* the handler of sig runs on the children k
Forward(sig, k) ==
    /\ kern' = KillEach(k, ForwardTargets(joblist), sig)
    /\ pc' = AfterHandler
    /\ UNCHANGED <<cmd, job, i, existing, joblist, next, nextPid, blocked, tcpgrp, fds>>

\* a signal that was blocked when it arrived is handled once it is unblocked
Handle(sig) ==
    /\ Alive
    /\ sig \in pending \ EffBlocked
    /\ Forward(sig, kern)
    /\ pending' = (pending \ {sig}) \cup Posted(kern, kern')

sigintHandler == Handle("SIGINT")

sigtstpHandler == Handle("SIGTSTP")

\* ----------------------------------------------------------- environment
\* the user types ctrl-C or ctrl-Z: the terminal driver signals every
\* process of the terminal's foreground process group.  The shell handles
\* the signal on arrival unless it is blocked; then it stays pending.
ToGroup(sig) ==
    [p \in ChildPids |->
        IF Born(kern[p]) /\ kern[p].pg = tcpgrp THEN Deliver(kern[p], sig) ELSE kern[p]]

UserSignal(sig) ==
    /\ Alive
    /\ IF tcpgrp = ShellPid /\ sig \notin EffBlocked
       THEN /\ Forward(sig, ToGroup(sig))
            /\ pending' = pending \cup Posted(kern, kern')
       ELSE /\ kern' = ToGroup(sig)
            /\ pending' = pending \cup (IF tcpgrp = ShellPid THEN {sig} ELSE {})
                                  \cup Posted(kern, kern')
            /\ UNCHANGED <<pc, cmd, job, i, existing, joblist, next, nextPid, blocked,
                           tcpgrp, fds>>

ChildStep(p, c) ==
    /\ Alive
    /\ kern' = [kern EXCEPT ![p] = c]
    /\ pending' = pending \cup Posted(kern, kern')
    /\ UNCHANGED <<pc, cmd, job, i, existing, joblist, next, nextPid, blocked,
                   tcpgrp, fds>>

\* execvp succeeds: the child runs its program
ChildExec(p) ==
    /\ kern[p].st = "running" /\ kern[p].img = "shell"
    /\ ChildStep(p, [kern[p] EXCEPT !.img = "prog"])

NeverExits(p) == FALSE

\* if (getpid() != stshpid) exit(0);
ExitsInCatch(p) == p # ShellPid

\* execvp fails: the child throws, the exception reaches the catch clause of
\* main in the child, which exits or goes on to the next readline
ChildExecFails(p) ==
    /\ kern[p].st = "running" /\ kern[p].img = "shell"
    /\ ChildStep(p, IF ExitsInCatch(p)
                    THEN [kern[p] EXCEPT !.st = "zombie", !.img = "catch",
                                         !.status = ExitCaught]
                    ELSE [kern[p] EXCEPT !.img = "repl"])

\* the program ends by itself
ChildExit(p) ==
    /\ kern[p].st = "running" /\ kern[p].img = "prog"
    /\ ChildStep(p, [kern[p] EXCEPT !.st = "zombie"])

\* ---------------------------------------------------------------- createJob
\* for (i = 0; i < count - 1; i++) pipe(fds[i]);
Pipes(n, count) == {<<n, x, e>> : x \in 0..(count - 2), e \in {0, 1}}

ParentClosesButLast(n, count) == {<<n, x, e>> : x \in 0..(count - 3), e \in {0, 1}}

\* for (i = 0; i < count - 1; i++) Close(fds[i]);
ParentCloses(n, count) == {<<n, x, e>> : x \in 0..(count - 2), e \in {0, 1}}

Crash ==
    /\ pc' = "crashed"
    /\ UNCHANGED <<cmd, job, i, existing, joblist, next, kern, nextPid, blocked,
                   pending, tcpgrp, fds>>

\* the steps at which the shell dereferences `job`: through a dangling
\* reference the step may crash the shell instead of using the freed record
DanglingUse ==
    /\ Running
    /\ pc \in {"cj_add", "cj_close", "fg_block", "bg_sync", "shc_kill"}
    /\ Dangling(joblist, job)
    /\ Crash

\* the input redirection of a command line: none, a file that can be opened,
\* a file that cannot
Inputs == {"", "file", "missing"}

\* int infd = (!p.input.empty()) ? open(p.input.c_str(), O_RDONLY) : 0;
Open(input) ==
    IF input = "" THEN 0 ELSE IF input = "missing" THEN OpenError ELSE FirstFd

\* STSHJobState state = (p.background) ? kBackground : kForeground;
InitialState(bg) == IF bg THEN "Background" ELSE "Foreground"

Launch(bg, count, input) ==
    /\ Running
    /\ pc = "readline"
    /\ next <= MaxJobs
    /\ nextPid + count <= ShellPid + MaxProcs + 1
    /\ joblist' = addJob(joblist, next, InitialState(bg))
    /\ job' = next
    /\ next' = next + 1
    /\ cmd' = [NoCmd EXCEPT !.kind = "launch", !.background = bg, !.count = count,
                            !.infd = Open(input)]
    /\ fds' = fds \cup Pipes(next, count)
    /\ i' = 0
    /\ pc' = "cj_fork"
    /\ UNCHANGED <<existing, kern, nextPid, blocked, pending, tcpgrp>>

GroupExists(k, g) == \E p \in ChildPids : Born(k[p]) /\ k[p].pg = g

\* setpgid(pid, job.getGroupID()) as the child and the parent both call it:
\* group 0 makes the child the leader of a new group; a group that does
\* not exist leaves the child in the shell's group
GroupOf(k, pid, g) ==
    IF g = 0 \/ g = pid THEN pid ELSE IF GroupExists(k, g) THEN g ELSE ShellPid

ForkOk ==
    /\ Running
    /\ pc = "cj_fork"
    /\ kern' = [kern EXCEPT ![nextPid] =
                  [NoProc EXCEPT !.st = "running", !.img = "shell",
                                 !.pg = GroupOf(kern, nextPid, joblist[job].pgid)]]
    /\ cmd' = [cmd EXCEPT !.pid = nextPid]
    /\ nextPid' = nextPid + 1
    /\ pc' = "cj_add"
    /\ UNCHANGED <<job, i, existing, joblist, next, blocked, pending, tcpgrp, fds>>

\* fork returns -1; the code takes the parent branch with pid == -1
ForkFails ==
    /\ Running
    /\ pc = "cj_fork"
    /\ cmd' = [cmd EXCEPT !.pid = ForkError]
    /\ pc' = "cj_add"
    /\ UNCHANGED <<job, i, existing, joblist, next, kern, nextPid, blocked, pending,
                   tcpgrp, fds>>

\* job.addProcess(STSHProcess(pid, cmd)); setpgid(pid, job.getGroupID());
AddProcess ==
    /\ Running
    /\ pc = "cj_add"
    /\ joblist' = [joblist EXCEPT ![job] = addProcess(@, cmd.pid)]
    /\ i' = i + 1
    /\ pc' = IF i + 1 < cmd.count THEN "cj_fork" ELSE "cj_close"
    /\ UNCHANGED <<cmd, job, existing, next, kern, nextPid, blocked, pending, tcpgrp, fds>>

\* tcsetpgrp(STDIN_FILENO, pgid) succeeds for a process group of the session
TcOk(k, g) == g = ShellPid \/ GroupExists(k, g)

\* if (joblist.hasForegroundJob()) tcsetpgrp(STDIN_FILENO, job.getGroupID())
GivesTerminal(jl) == hasForegroundJob(jl)

\* the pipes are closed, the background job announced, the terminal given
CloseAndGive ==
    /\ Running
    /\ pc = "cj_close"
    /\ fds' = fds \ ParentCloses(job, cmd.count)
    /\ IF GivesTerminal(joblist) /\ ~TcOk(kern, joblist[job].pgid)
       THEN /\ BackToPrompt(joblist)
            /\ UNCHANGED <<tcpgrp>>
       ELSE /\ tcpgrp' = IF GivesTerminal(joblist) THEN joblist[job].pgid ELSE tcpgrp
            /\ pc' = "cj_tc2"
            /\ UNCHANGED <<cmd, job, i, existing, joblist>>
    /\ UNCHANGED <<next, kern, nextPid, blocked, pending>>

\* tcsetpgrp(STDIN_FILENO, getpgid(getpid())); sigprocmask(SIG_BLOCK, &mask, &existing);
TakeBackAndBlock ==
    /\ Running
    /\ pc = "cj_tc2"
    /\ tcpgrp' = ShellPid
    /\ existing' = blocked
    /\ blocked' = blocked \cup Mask
    /\ pc' = "cj_wait"
    /\ UNCHANGED <<cmd, job, i, joblist, next, kern, nextPid, pending, fds>>

\* while (joblist.hasForegroundJob()) sigsuspend(&existing);
\* sigprocmask(SIG_UNBLOCK, &mask, NULL);
WaitForeground(at, susp) ==
    /\ Running
    /\ pc = at
    /\ IF hasForegroundJob(joblist)
       THEN /\ pc' = susp
            /\ UNCHANGED <<cmd, job, i, existing, joblist, blocked>>
       ELSE /\ blocked' = blocked \ Mask
            /\ BackToPrompt(joblist)
    /\ UNCHANGED <<next, kern, nextPid, pending, tcpgrp, fds>>

CreateJobWait == WaitForeground("cj_wait", "cj_susp")

\* ------------------------------------------------------------------ builtins
kSupportedBuiltins == <<"quit", "exit", "fg", "bg", "slay", "halt", "cont", "jobs">>

BadNumberButSuffix(first) == strtol(first).val < 0

\* if ((strlen(first) > 0 && strlen(ptr) > 0) || ret < 0) throw ...
BadNumber(first) ==
    \/ Len(first) > 0 /\ Len(strtol(first).ptr) > 0
    \/ strtol(first).val < 0

\* a builtin throws before it has changed anything; main prints the message
Throws == UNCHANGED vars

\* the builtin goes on with a reference to job n
Refers(c, n, to) ==
    /\ cmd' = c
    /\ job' = n
    /\ pc' = to
    /\ UNCHANGED <<i, existing, joblist, next, kern, nextPid, blocked, pending,
                   tcpgrp, fds>>

\* fg and bg: what the argument checks make of the first token
JobArgError(jl, first) ==
    IF first = NULL THEN "usage"
    ELSE IF BadNumber(first) THEN "usage"
    ELSE IF ~containsJob(jl, atoi(first)) THEN "no such job"
    ELSE "none"

fgBuiltin(first) ==
    /\ Running
    /\ pc = "readline"
    /\ IF JobArgError(joblist, first) # "none" THEN Throws
       ELSE Refers([NoCmd EXCEPT !.kind = "fg", !.index = 2], atoi(first), "fg_block")

\* if (kill(process.getID(), SIGCONT) == 0) job.setState(kForeground);
Continued(k, j) ==
    IF \E x \in 1..Len(j.procs) : KillOk(k, j.procs[x].pid)
    THEN [j EXCEPT !.state = "Foreground"] ELSE j

\* sigprocmask(SIG_BLOCK, ...); the SIGCONT loop; joblist.synchronize(job)
FgContinue ==
    /\ Running
    /\ pc = "fg_block"
    /\ existing' = blocked
    /\ blocked' = blocked \cup Mask
    /\ kern' = KillEach(kern, joblist[job].procs, "SIGCONT")
    /\ pending' = pending \cup Posted(kern, kern')
    /\ LET s == synchronize([joblist EXCEPT ![job] = Continued(kern, @)], job, tcpgrp)
       IN  joblist' = s.joblist /\ tcpgrp' = s.tcpgrp
    /\ pc' = "fg_wait"
    /\ UNCHANGED <<cmd, job, i, next, nextPid, fds>>

FgWait == WaitForeground("fg_wait", "fg_susp")

\* the argument checks, getJob, and
\* for (auto process: processes) kill(process.getID(), SIGCONT);
bgBuiltin(first) ==
    /\ Running
    /\ pc = "readline"
    /\ IF JobArgError(joblist, first) # "none" THEN Throws
       ELSE /\ kern' = KillEach(kern, joblist[atoi(first)].procs, "SIGCONT")
            /\ pending' = pending \cup Posted(kern, kern')
            /\ cmd' = [NoCmd EXCEPT !.kind = "bg", !.index = 3]
            /\ job' = atoi(first)
            /\ pc' = "bg_sync"
            /\ UNCHANGED <<i, existing, joblist, next, nextPid, blocked, tcpgrp, fds>>

\* joblist.synchronize(job), and back to main
BgSynchronize ==
    /\ Running
    /\ pc = "bg_sync"
    /\ LET s == synchronize(joblist, job, tcpgrp)
       IN  BackToPrompt(s.joblist) /\ tcpgrp' = s.tcpgrp
    /\ UNCHANGED <<next, kern, nextPid, blocked, pending, fds>>

\* switch (index) { case 4: killer = SIGKILL; case 5: killer = SIGSTOP;
\*                  case 6: killer = SIGCONT; }   -- no break: every case
\* falls through to the last assignment
Killer(index) ==
    LET k4 == IF index = 4 THEN "SIGKILL" ELSE "unset"
        k5 == IF index \in {4, 5} THEN "SIGSTOP" ELSE k4
        k6 == IF index \in {4, 5, 6} THEN "SIGCONT" ELSE k5
    IN  k6

\* slay, halt, cont: what the argument checks make of the two tokens
ShcError(jl, first, second) ==
    IF first = NULL THEN "usage"
    ELSE IF second = NULL
    THEN IF BadNumber(first) THEN "usage"
         ELSE IF ~containsProcess(jl, atoi(first)) THEN "no process"
         ELSE "none"
    ELSE IF ~containsJob(jl, atoi(first)) THEN "no job"
         ELSE IF ~JobContainsProcess(jl[atoi(first)], atoi(second)) THEN "no process"
         ELSE "none"

\* the job the builtin refers to once the checks have passed
ShcJob(jl, first, second) ==
    IF second = NULL THEN getJobWithProcess(jl, atoi(first)) ELSE atoi(first)

SHCBuiltin(index, first, second) ==
    /\ Running
    /\ pc = "readline"
    /\ first = NULL => second = NULL
    /\ IF ShcError(joblist, first, second) # "none" THEN Throws
       ELSE Refers([NoCmd EXCEPT !.kind = "shc", !.index = index,
                                 !.two = (second # NULL),
                                 !.pid = IF second = NULL THEN 0 ELSE atoi(second)],
                   ShcJob(joblist, first, second), "shc_kill")

\* one argument: every process of the job that holds the pid is signalled;
\* two arguments: the process of the job whose pid is the second argument
ShcTargets(j, two, pid) ==
    IF two THEN SelectSeq(j.procs, LAMBDA pr : pr.pid = pid) ELSE j.procs

ShcKill ==
    /\ Running
    /\ pc = "shc_kill"
    /\ kern' = KillEach(kern, ShcTargets(joblist[job], cmd.two, cmd.pid), Killer(cmd.index))
    /\ pending' = pending \cup Posted(kern, kern')
    /\ BackToPrompt(joblist)
    /\ UNCHANGED <<next, nextPid, blocked, tcpgrp, fds>>

\* case 7: cout << joblist;
jobsBuiltin ==
    /\ Running
    /\ pc = "readline"
    /\ Throws

\* quit, exit, or end of input
Quit ==
    /\ Running
    /\ pc = "readline"
    /\ pc' = "exited"
    /\ UNCHANGED <<cmd, job, i, existing, joblist, next, kern, nextPid, blocked,
                   pending, tcpgrp, fds>>

\* ---------------------------------------------------------------------- main
FirstArgs == Tokens \cup {NULL}

SecondArgs == {Decimal(n) : n \in (0..(MaxWidth - 1)) \cup ChildPids} \cup {NULL}

Next ==
    \/ \E bg \in BOOLEAN, count \in 1..MaxWidth, input \in Inputs :
         Launch(bg, count, input)
    \/ ForkOk
    \/ ForkFails
    \/ AddProcess
    \/ CloseAndGive
    \/ TakeBackAndBlock
    \/ CreateJobWait
    \/ pc = "readline" /\ \E first \in FirstArgs : fgBuiltin(first)
    \/ FgContinue
    \/ FgWait
    \/ pc = "readline" /\ \E first \in FirstArgs : bgBuiltin(first)
    \/ BgSynchronize
    \/ pc = "readline" /\ \E index \in 4..6, first \in FirstArgs, second \in SecondArgs :
                              SHCBuiltin(index, first, second)
    \/ ShcKill
    \/ jobsBuiltin
    \/ Quit
    \/ DanglingUse
    \/ sigchldHandler
    \/ sigintHandler
    \/ sigtstpHandler
    \/ \E sig \in {"SIGINT", "SIGTSTP"} : UserSignal(sig)
    \/ \E p \in ChildPids : ChildExec(p)
    \/ \E p \in ChildPids : ChildExecFails(p)
    \/ \E p \in ChildPids : ChildExit(p)

Spec == Init /\ [][Next]_vars

\* ------------------------------------------------ createJob, in the child
\* The forked child is a copy of the shell: it goes on in createJob with the
\* same variables.  Of its descriptors, fds holds the pipe ends it has open
\* under the numbers pipe() returned; the duplicates installed as standard
\* input and output are not part of fds.
MaxStages == 6

\* close(fd) of one pipe end
CloseEnd(S, n, x, e) == S \ {<<n, x, e>>}

\* void Dup2(int infd1, int infd2) { dup2(infd1, infd2); close(infd1); }
Dup2(S, n, x, e) == CloseEnd(S, n, x, e)

\* void Close(int* fd) { close(fd[0]); close(fd[1]); }
Close(S, n, x) == CloseEnd(CloseEnd(S, n, x, 0), n, x, 1)

\* Close(fds[k]) on a row pipe() never filled (k = count - 1) or past the end
\* of the array (k = count): the two numbers closed are indeterminate, each
\* may be a descriptor the child has open
StrayCloses(S) == {G \in SUBSET S : Cardinality(G) <= 2}

\* the child right after fork, at stage i of a pipeline of count commands
ChildInit ==
    /\ pc = "ch_branch"
    /\ \E count \in 1..MaxStages :
         /\ cmd = [NoCmd EXCEPT !.kind = "launch", !.count = count]
         /\ i \in 0..(count - 1)
         /\ fds = Pipes(1, count)
    /\ job = 1
    /\ existing = {}
    /\ joblist = addJob([n \in JobNums |-> NoJob], 1, "Foreground")
    /\ next = 2
    /\ kern = [p \in ChildPids |-> NoProc]
    /\ nextPid = ShellPid + 1
    /\ blocked = {}
    /\ pending = {}
    /\ tcpgrp = ShellPid

ChildGoes(to, S) ==
    /\ pc' = to
    /\ fds' = S
    /\ UNCHANGED <<cmd, job, i, existing, joblist, next, kern, nextPid, blocked,
                   pending, tcpgrp>>

\* if (count == 1) { ... }: no pipe
ChildSingle ==
    /\ pc = "ch_branch"
    /\ cmd.count = 1
    /\ ChildGoes("ch_exec", fds)

\* if (i == 0) { close(fds[0][0]); Dup2(fds[0][1], STDOUT_FILENO); Close(fds[count]); }
ChildFirst ==
    /\ pc = "ch_branch"
    /\ cmd.count # 1 /\ i = 0
    /\ \E G \in StrayCloses(Dup2(CloseEnd(fds, job, 0, 0), job, 0, 1)) :
         ChildGoes("ch_loop", Dup2(CloseEnd(fds, job, 0, 0), job, 0, 1) \ G)

\* else if (i == count - 1) { close(fds[i - 1][1]); Dup2(fds[i - 1][0], STDIN_FILENO);
\*                            Close(fds[0]); }
ChildLast ==
    /\ pc = "ch_branch"
    /\ cmd.count # 1 /\ i # 0 /\ i = cmd.count - 1
    /\ ChildGoes("ch_loop",
                 Close(Dup2(CloseEnd(fds, job, i - 1, 1), job, i - 1, 0), job, 0))

\* else { close(fds[i - 1][1]); Dup2(fds[i - 1][0], STDIN_FILENO); close(fds[i][0]);
\*        Dup2(fds[i][1], STDOUT_FILENO); Close(fds[0]); Close(fds[count - 1]); }
ChildMiddle ==
    /\ pc = "ch_branch"
    /\ cmd.count # 1 /\ i # 0 /\ i # cmd.count - 1
    /\ LET a == Dup2(CloseEnd(fds, job, i - 1, 1), job, i - 1, 0)
           b == Dup2(CloseEnd(a, job, i, 0), job, i, 1)
           c == Close(b, job, 0)
       IN  \E G \in StrayCloses(c) : ChildGoes("ch_loop", c \ G)

\* for (int j = 1; j < count - 2; j++) Close(fds[j]);
LoopCloses(n, count) == {<<n, x, e>> : x \in 1..(count - 3), e \in {0, 1}}

ChildLoop ==
    /\ pc = "ch_loop"
    /\ ChildGoes("ch_exec", fds \ LoopCloses(job, cmd.count))

ChildNext ==
    \/ ChildSingle
    \/ ChildFirst
    \/ ChildLast
    \/ ChildMiddle
    \/ ChildLoop

ChildSpec == ChildInit /\ [][ChildNext]_vars

\* ==================================================================== claims
AtPrompt == pc = "readline"

\* C1: each time main is back at readline, at most one job of the job list
\* has state Foreground.
C1_OneForegroundAtPrompt ==
    AtPrompt => Cardinality(ForegroundJobs(joblist)) <= 1

\* C2: the terminal's foreground process group is always the shell's own
\* group or the group of the one Foreground job of the job list.
C2_TerminalShellOrForeground ==
    \/ tcpgrp = ShellPid
    \/ /\ Cardinality(ForegroundJobs(joblist)) = 1
       /\ tcpgrp = joblist[getForegroundJob(joblist)].pgid

\* C3: in createJob the four signals are blocked from before the first fork
\* until every child is recorded and the pipes are closed.
C3_BlockedWhileForking ==
    pc \in {"cj_fork", "cj_add", "cj_close"} => Mask \subseteq blocked

\* C4: while the shell is suspended in sigsuspend waiting for a foreground
\* job, the terminal's foreground process group is that job's group.
C4_TerminalWithJobWhileSuspended ==
    Suspended =>
        /\ hasForegroundJob(joblist)
        /\ tcpgrp = joblist[getForegroundJob(joblist)].pgid

\* a run of sigchldHandler that returns: it alone takes SIGCHLD out of the
\* pending set; a run that throws ends the shell or leaves SIGCHLD blocked
SigchldReturns ==
    /\ "SIGCHLD" \in pending
    /\ "SIGCHLD" \notin pending'
    /\ pc' # "crashed"
    /\ blocked' = blocked

\* C5: when sigchldHandler returns, every child that had changed state is
\* reaped or reported, none is left waitable, and the job list records its
\* new state, however many children changed state for the one SIGCHLD.
C5_HandlerDrainsEveryChild ==
    [][SigchldReturns =>
        /\ Waitable(kern') = {}
        /\ \A p \in Waitable(kern) : \A n \in LiveJobs(joblist') :
             \A x \in 1..Len(joblist'[n].procs) :
                joblist'[n].procs[x].pid = p =>
                    joblist'[n].procs[x].state = StateOf(kern[p])]_vars

\* several children of the job list have changed state and the one SIGCHLD
\* is about to be handled
C5_Storm ==
    /\ Alive
    /\ "SIGCHLD" \in pending \ EffBlocked
    /\ Cardinality(Waitable(kern)) >= 2
    /\ \A p \in Waitable(kern) : containsProcess(joblist, p)

\* C6: no forked child ever reaches readline, also when its execvp fails.
C6_NoChildAtPrompt ==
    \A p \in ChildPids : kern[p].img # "repl"

\* a child whose execvp failed has left through the catch clause while the
\* shell is at its prompt
C6_FailedExecExited ==
    /\ AtPrompt
    /\ \E p \in ChildPids : kern[p].st = "zombie" /\ kern[p].img = "catch"

OwnSignal(index) ==
    IF index = 4 THEN "SIGKILL" ELSE IF index = 5 THEN "SIGSTOP" ELSE "SIGCONT"

\* C8: slay sends SIGKILL, halt sends SIGSTOP and cont sends SIGCONT.
C8_OwnSignal ==
    pc = "shc_kill" => Killer(cmd.index) = OwnSignal(cmd.index)

\* C9: typed at the prompt, slay/halt/cont <jobnum> <idx> on an existing job
\* with idx a position in its process sequence (counted from 0) is accepted
\* and signals the process at that position, and only that one.
C9_SecondArgumentIsIndex ==
    \A first \in FirstArgs \ {NULL}, second \in SecondArgs \ {NULL} :
        (/\ AtPrompt
         /\ containsJob(joblist, atoi(first))
         /\ atoi(second) < Len(joblist[atoi(first)].procs))
        => /\ ShcError(joblist, first, second) = "none"
           /\ ShcTargets(joblist[atoi(first)], TRUE, atoi(second))
                = <<joblist[atoi(first)].procs[atoi(second) + 1]>>

\* C10: fg does not return to the prompt before every process of its job
\* is stopped or terminated.
C10_FgReturnsWhenJobStoppedOrDone ==
    [][(pc = "fg_wait" /\ pc' = "readline") =>
        \A x \in 1..Len(joblist[job].procs) :
            LET pid == joblist[job].procs[x].pid
            IN  pid \in ChildPids => kern[pid].st \in {"stopped", "zombie", "reaped"}]_vars

\* C11: a child whose execvp fails leaves through the catch clause of main,
\* which prints the message of the exception, and terminates with a
\* non-zero exit status.
C11_FailedExecExitsNonZero ==
    \A p \in ChildPids : kern[p].img = "catch" => kern[p].status # 0

\* C12: when the input file of a command line cannot be opened, createJob
\* forks no child and adds no process to the job list.
C12_NoForkWithoutInput ==
    (cmd.kind = "launch" /\ cmd.infd = OpenError) =>
        /\ cmd.pid \notin ChildPids
        /\ joblist[job].procs = <<>>

\* the argument names no job of the list: it is missing, or is not the
\* decimal numeral of the number of a job in the list
NamesNoJob(jl, first) == first \notin {Decimal(n) : n \in LiveJobs(jl)}

\* C13: fg or bg with a missing, non-numeric or negative argument, or with a
\* number that is no job of the list, goes straight back to the prompt: no
\* signal is sent, the job list, the signal mask and the terminal stay as
\* they were.
C13_BadArgumentChangesNothing ==
    [][\A first \in FirstArgs :
          (/\ NamesNoJob(joblist, first)
           /\ fgBuiltin(first) \/ bgBuiltin(first))
          => /\ pc' = "readline"
             /\ UNCHANGED <<joblist, kern, blocked, pending, tcpgrp>>]_vars

\* the shell is at its prompt with a running job in the list, where a
\* signal sent or a mask changed by mistake would show
C13_PromptWithJob ==
    /\ AtPrompt
    /\ Running
    /\ \E n \in LiveJobs(joblist) :
         \E x \in 1..Len(joblist[n].procs) :
            /\ joblist[n].procs[x].pid \in ChildPids
            /\ kern[joblist[n].procs[x].pid].st = "stopped"
    /\ \E first \in FirstArgs \ {NULL} : JobArgError(joblist, first) = "no such job"

\* the shell is inside createJob
InCreateJob == pc \in {"cj_fork", "cj_add", "cj_close", "cj_tc2", "cj_wait", "cj_susp"}

\* C14: when control goes from createJob back to the prompt after every
\* process forked for a foreground pipeline has terminated and been reaped,
\* the job is no longer in the job list.
C14_ForegroundJobGoneOnReturn ==
    [][(/\ InCreateJob
        /\ ~cmd.background
        /\ cmd.pid \in ChildPids
        /\ ForkError \notin JobPids(joblist[job])
        /\ pc' = "readline"
        /\ \A p \in ChildPids : kern'[p].st \in {"unborn", "reaped"})
       => ~containsJob(joblist', job)]_vars

\* the step in which the shell runs sigtstpHandler: for a signal that was
\* pending, or on arrival of the user's ctrl-Z
HandlesSigtstp ==
    \/ sigtstpHandler
    \/ /\ tcpgrp = ShellPid
       /\ "SIGTSTP" \notin EffBlocked
       /\ UserSignal("SIGTSTP")

\* C15: when the shell handles SIGTSTP while a Foreground job is running,
\* the signal reaches every process of that job: each one that was running
\* is stopped, which is what lets the job list record it as Stopped, demote
\* the job to Background and end the foreground wait.
C15_StopReachesForegroundJob ==
    [][(hasForegroundJob(joblist) /\ HandlesSigtstp) =>
        \A x \in 1..Len(joblist[getForegroundJob(joblist)].procs) :
            LET pid == joblist[getForegroundJob(joblist)].procs[x].pid
            IN  (pid \in ChildPids /\ kern[pid].st = "running")
                    => kern'[pid].st = "stopped"]_vars

\* C16: while createJob launches a background pipeline and no other job is
\* Foreground, the shell never suspends and the new job is never
\* Foreground; on return to the prompt the terminal is the shell's, and the
\* job is in the job list as long as one of its processes is alive.
C16_BackgroundLaunchDoesNotWait ==
    [][(/\ InCreateJob
        /\ cmd.background
        /\ ForegroundJobs(joblist) \ {job} = {})
       => /\ pc' # "cj_susp"
          /\ joblist'[job].state = "Background"
          /\ pc' = "readline" =>
               /\ tcpgrp' = ShellPid
               /\ (\E x \in 1..Len(joblist[job].procs) :
                     LET pid == joblist[job].procs[x].pid
                     IN  pid \in ChildPids /\ kern'[pid].st \in {"running", "stopped"})
                  => containsJob(joblist', job)]_vars

\* the children as sigintHandler or sigtstpHandler leaves them
Forwarded(sig) == KillEach(kern, ForwardTargets(joblist), sig)

\* C17: whenever the shell can handle SIGINT or SIGTSTP, the handler
\* signals no process of a Background job, and without a Foreground job it
\* signals no process at all.
C17_ForwardsOnlyToForeground ==
    \A sig \in {"SIGINT", "SIGTSTP"} :
        (Alive /\ sig \notin EffBlocked) =>
            \A p \in ChildPids :
                Forwarded(sig)[p] # kern[p] =>
                    /\ hasForegroundJob(joblist)
                    /\ \A n \in LiveJobs(joblist) :
                         JobContainsProcess(joblist[n], p) => joblist[n].state = "Foreground"

\* C19: whenever sigchldHandler is about to run, every pid its calls of
\* waitpid can return is recorded in the job list, under exactly one job.
C19_WaitedPidIsRecorded ==
    (Alive /\ "SIGCHLD" \in pending \ EffBlocked) =>
        \A p \in Waitable(kern) :
            Cardinality({n \in LiveJobs(joblist) : JobContainsProcess(joblist[n], p)}) = 1

\* C20: back at the prompt, also after a fork of createJob has failed, no
\* job of the job list records the pid fork returned on failure, as a
\* process or as its process group.
C20_NoFailedForkInJobList ==
    AtPrompt =>
        \A n \in LiveJobs(joblist) :
            /\ ForkError \notin JobPids(joblist[n])
            /\ joblist[n].pgid # ForkError

\* C18: at the moment of execvp the child of a pipeline has closed both ends
\* of every pipe of the pipeline (the duplicates installed as its standard
\* input and output apart).
C18_ChildHoldsNoPipeAtExec ==
    pc = "ch_exec" => \A f \in fds : f[1] # job

\* C21: the foreground wait loses no wakeup: the shell tests
\* hasForegroundJob() with the four signals blocked, and while it is
\* suspended in sigsuspend SIGCHLD can be delivered, so that a foreground
\* job that stops or terminates always wakes the shell.
C21_NoLostWakeup ==
    /\ pc \in {"cj_wait", "fg_wait"} => Mask \subseteq blocked
    /\ Suspended => "SIGCHLD" \notin existing

====
